---- MODULE Spec2Model ----
(***************************************************************************)
(* MovieCorpusAnalyzer (src/src/movie_analyzer.py): the corpus ingestion   *)
(* pipeline run by the constructor (download -> wget fallback -> extract   *)
(* -> load) over the files of download_dir, and the six query methods over *)
(* the loaded DataFrames.                                                  *)
(*                                                                         *)
(* Spec   the analyzers built one after the other over one download_dir:   *)
(*        every step of __init__, then a further construction.             *)
(* SpecQ  the six query methods of one analyzer over the corpus files.     *)
(* SpecMovieType, SpecActorCount, SpecAges  one query method each, over    *)
(*        every small character table.                                     *)
(***************************************************************************)
EXTENDS Integers, Sequences, FiniteSets, TLC

\* ------------------------------------------------------------------ bounds
\* constructions of an analyzer over the same download_dir
MaxInits == 2
\* movie ids range over 1..MaxId
MaxId == 3
\* rows of a character table in SpecQ
MaxRows == 4
\* the largest N handed to movie_type
MaxN == 4
\* rows of a movie table in SpecDetails
MaxMovies == 2

\* ------------------------------------------------------- program constants
\* np.linspace(min_height, max_height, 20): 20 edges, 19 bins
NumEdges == 20
\* "Maximum height exceeds realistic human height (3 meters)"
MaxRealisticHeight == 3
\* heights are held in ticks, MetreTicks ticks to the metre (enough of them
\* for a range of NumEdges - 1 ticks, whose bin edges are the ticks)
MetreTicks == 7

\* ---------------------------------------------------------------- cells
\* A cell of a flat file or of a DataFrame. k = "ok": a value; "na": missing
\* (NaN / NaT); "bad": text of a flat file that does not parse.
Num(v) == [k |-> "ok", v |-> v]
NaN == [k |-> "na", v |-> 0]
BadNum == [k |-> "bad", v |-> 0]
Date(y, m) == [k |-> "ok", y |-> y, m |-> m]
NaT == [k |-> "na", y |-> 0, m |-> 0]
BadDate == [k |-> "bad", y |-> 0, m |-> 0]
Str(s) == [k |-> "ok", s |-> s]
NaStr == [k |-> "na", s |-> ""]
isna(c) == c.k = "na"
notna(c) == ~isna(c)

\* A genres cell: the serialized mapping text (a sequence of characters) and
\* what eval() of that text does: kind "dict" with the mapping's values,
\* "other" (a value that is no dict), "raises" (an Exception, a SyntaxError
\* included), "exit" (SystemExit, a BaseException that is no Exception).
Genres(text, kind, values) == [k |-> "ok", text |-> text, kind |-> kind, values |-> values]
NaGenres == [k |-> "na", text |-> <<>>, kind |-> "na", values |-> <<>>]

\* ------------------------------------------------------------ the files
needed_files == {"character.metadata.tsv", "movie.metadata.tsv", "plot_summaries.txt"}
data_path == "character.metadata.tsv"
movie_metadata_path == "movie.metadata.tsv"
plot_summaries_path == "plot_summaries.txt"

column_names == <<"wikipedia_movie_id", "actor_dob", "actor_gender", "actor_height">>
movie_metadata_columns == <<"wikipedia_movie_id", "movie_name", "movie_release_date", "genres">>
summaries_columns == <<"wikipedia_movie_id", "summary">>

CharRow(id, dob, gender, height) ==
    [wikipedia_movie_id |-> id, actor_dob |-> dob, actor_gender |-> gender,
     actor_height |-> height]
MovieRow(id, name, date, genres) ==
    [wikipedia_movie_id |-> id, movie_name |-> name, movie_release_date |-> date,
     genres |-> genres]
SummaryRow(id, text) == [wikipedia_movie_id |-> id, summary |-> text]

\* A file of download_dir: absent, or its rows.
NoFile == [exists |-> FALSE, rows |-> <<>>]
File(rows) == [exists |-> TRUE, rows |-> rows]

GenreDrama == Genres(<<"D", "a">>, "dict", <<"Da">>)
GenreNoir == Genres(<<"N", ".", "a">>, "dict", <<"N.a", "Da">>)
GenreList == Genres(<<"a", "d">>, "other", <<>>)
GenreBroken == Genres(<<"(", "D">>, "raises", <<>>)
GenreExit == Genres(<<"e", "x">>, "exit", <<>>)

\* The members of the archive that data_url serves.
ArchiveMember(f) ==
    CASE f = data_path ->
           File(<<CharRow(1, Date(1, 1), Str("M"), Num(3)),
                  CharRow(2, BadDate, Str("F"), Num(4)),
                  CharRow(1, Date(2, 5), NaStr, NaN),
                  CharRow(2, Date(1, 5), Str("M"), BadNum),
                  CharRow(3, NaT, Str("F"), Num(6))>>)
      [] f = movie_metadata_path ->
           File(<<MovieRow(1, Str("One"), Date(1, 1), GenreDrama),
                  MovieRow(2, NaStr, BadDate, GenreNoir),
                  MovieRow(3, Str("Three"), Date(2, 3), NaGenres)>>)
      [] OTHER ->
           File(<<SummaryRow(1, Str("plot one")), SummaryRow(3, Str("plot three"))>>)

\* The files a download_dir may hold before the analyzer is constructed: an
\* earlier, shorter edition of the corpus.
CachedFile(f) ==
    CASE f = data_path ->
           File(<<CharRow(2, Date(1, 1), Str("M"), Num(3)),
                  CharRow(3, Date(2, 5), Str("F"), Num(5)),
                  CharRow(3, NaT, Str("F"), NaN)>>)
      [] f = movie_metadata_path ->
           File(<<MovieRow(2, Str("Two"), Date(2, 1), GenreList),
                  MovieRow(3, Str("Three"), NaT, GenreBroken),
                  MovieRow(1, Str("Uno"), Date(2, 7), GenreExit)>>)
      [] OTHER ->
           File(<<SummaryRow(2, Str("plot two"))>>)

\* The file at archive_path: absent, not a readable gzip tar (a truncated or
\* empty download), or a tar holding some of the needed members.
NoArchive == [state |-> "absent", members |-> {}]
CorruptArchive == [state |-> "corrupt", members |-> {}]
Tar(members) == [state |-> "good", members |-> members]
exists(a) == a.state # "absent"

\* ------------------------------------------------------------ DataFrames
Unset == [loaded |-> FALSE, columns |-> <<>>, rows |-> <<>>]
DataFrame(columns, rows) == [loaded |-> TRUE, columns |-> columns, rows |-> rows]

\* No exception.
NoExc == [exc |-> "none", context |-> "none", stage |-> "none"]

VARIABLES
    remote,          \* the members of the archive data_url serves
    archive,         \* the file at archive_path
    cache,           \* the three needed files of download_dir
    pc,              \* where the current construction stands
    pending,         \* the exception __init__ is handling (line 61)
    error,           \* the exception that left the constructor
    data,            \* self.data
    movie_metadata,  \* self.movie_metadata
    summaries,       \* self.summaries
    tieRank,         \* the order sort_values leaves equal counts in
    calls,           \* the transport calls of the current construction, in order
    warm,            \* whether archive_path existed when construction began
    present,         \* the needed files that existed when _extract_data began
    written,         \* the members tar.extract wrote in this construction
    inits,           \* how many analyzers were constructed so far
    previous,        \* how the previous construction ended
    snapshot,        \* the three tables as _load_data left them
    last             \* the last query call and what it returned

vars == <<remote, archive, cache, pc, pending, error, data, movie_metadata, summaries,
          tieRank, calls, warm, present, written, inits, previous, snapshot, last>>


\* ------------------------------------------------------------ construction
NoCall == [op |-> "none", args |-> <<>>, outcome |-> "none", value |-> <<>>]
NoCalls == <<>>
Call(transport, ok) == [transport |-> transport, ok |-> ok]
NoSnapshot == <<Unset, Unset, Unset>>

\* What urllib.request.urlretrieve can do: fetch the archive; fail before the
\* target file is opened; fail after it was opened, leaving a truncated file.
UrlOutcomes == {"ok", "refused", "cut"}
\* What subprocess.run(["wget", ...], check=True) can do: exit 0; exit non-zero
\* (CalledProcessError); find no wget executable (FileNotFoundError).
WgetOutcomes == {"ok", "exit_nonzero", "not_installed"}

\* a download that does not look for the archive first
must_download_always(a) == TRUE

\* if not os.path.exists(self.archive_path)
must_download(a) == ~exists(a)

\* _download_data, with __init__'s "except Exception" around it: a failure of
\* urlretrieve is re-raised into __init__, which turns to _download_with_wget.
download_data ==
    /\ pc = "download"
    /\ IF must_download(archive)
       THEN \E outcome \in UrlOutcomes :
              /\ calls' = Append(calls, Call("urlretrieve", outcome = "ok"))
              /\ CASE outcome = "ok" ->
                        /\ archive' = Tar(remote)
                        /\ pc' = "extract"
                        /\ pending' = "none"
                   [] outcome = "refused" ->
                        /\ archive' = archive
                        /\ pc' = "wget"
                        /\ pending' = "URLError"
                   [] OTHER ->
                        /\ archive' = CorruptArchive
                        /\ pc' = "wget"
                        /\ pending' = "URLError"
       ELSE /\ pc' = "extract"
            /\ UNCHANGED <<archive, calls, pending>>
    /\ UNCHANGED <<remote, cache, error, data, movie_metadata, summaries, tieRank,
                   warm, present, written, inits, previous, snapshot, last>>

\* except (ImportError, subprocess.SubprocessError): the exceptions of wget
\* that _download_with_wget turns into "return False".
wget_caught(outcome) == outcome = "exit_nonzero"

\* a fallback error raised without the exception it came from
fallback_error_without_cause(outcome, handled) ==
    IF outcome = "exit_nonzero"
    THEN [exc |-> handled, context |-> "none", stage |-> "download"]
    ELSE [exc |-> "FileNotFoundError", context |-> "none", stage |-> "download"]

\* The exception that leaves __init__ when the fallback did not download:
\* "if not self._download_with_wget(): raise" re-raises the exception being
\* handled; an exception _download_with_wget lets through is raised while that
\* one is being handled, which makes it the new exception's __context__.
fallback_error(outcome, handled) ==
    IF wget_caught(outcome)
    THEN [exc |-> handled, context |-> "none", stage |-> "download"]
    ELSE [exc |-> "FileNotFoundError", context |-> handled, stage |-> "download"]

\* a fallback whose result is not looked at
after_wget_ignored(outcome) == "extract"

\* if not self._download_with_wget(): raise -- where __init__ goes on
after_wget(outcome) == IF outcome = "ok" THEN "extract" ELSE "failed"

\* _download_with_wget and the rest of __init__'s except clause.
download_with_wget ==
    /\ pc = "wget"
    /\ \E outcome \in WgetOutcomes :
         /\ calls' = Append(calls, Call("wget", outcome = "ok"))
         /\ IF outcome = "ok"
            THEN /\ archive' = Tar(remote)
                 /\ pc' = after_wget(outcome)
                 /\ error' = error
            ELSE /\ pc' = after_wget(outcome)
                 /\ error' = fallback_error(outcome, pending)
                 \* wget -O opens the output file before it retrieves anything
                 /\ archive' \in IF outcome = "exit_nonzero"
                                 THEN {archive, CorruptArchive} ELSE {archive}
    /\ pending' = "none"
    /\ UNCHANGED <<remote, cache, data, movie_metadata, summaries, tieRank,
                   warm, present, written, inits, previous, snapshot, last>>

\* for file in needed_files: if not os.path.exists(file_path): append
files_to_extract(dir) == {f \in needed_files : ~dir[f].exists}

\* for member in tar.getmembers(): if basename in needed_files: tar.extract
\* (the members the loop extracts, given the list of missing files)
members_extracted(tar, missing) == {m \in tar.members : m \in needed_files}

\* _extract_data
extract_data ==
    /\ pc = "extract"
    /\ present' = needed_files \ files_to_extract(cache)
    /\ IF files_to_extract(cache) = {}
       THEN /\ pc' = "load"
            /\ UNCHANGED <<cache, written, error>>
       ELSE IF archive.state # "good"
       THEN \* tarfile.open raises; logged and re-raised
            /\ pc' = "failed"
            /\ error' = [exc |-> "ReadError", context |-> "none", stage |-> "extract"]
            /\ UNCHANGED <<cache, written>>
       ELSE LET ms == members_extracted(archive, files_to_extract(cache)) IN
            /\ written' = ms
            /\ cache' = [f \in needed_files |->
                            IF f \in ms THEN ArchiveMember(f) ELSE cache[f]]
            /\ pc' = "load"
            /\ error' = error
    /\ UNCHANGED <<remote, archive, pending, data, movie_metadata, summaries, tieRank,
                   calls, warm, inits, previous, snapshot, last>>

\* pd.to_datetime(..., errors="coerce"), pd.to_numeric(..., errors="coerce")
to_datetime(c) == IF c.k = "ok" THEN c ELSE NaT
to_numeric(c) == IF c.k = "ok" THEN c ELSE NaN

read_characters(rows) ==
    DataFrame(column_names,
              [i \in DOMAIN rows |->
                  [rows[i] EXCEPT !.actor_dob = to_datetime(@),
                                  !.actor_height = to_numeric(@)]])
read_movies(rows) ==
    DataFrame(movie_metadata_columns,
              [i \in DOMAIN rows |->
                  [rows[i] EXCEPT !.movie_release_date = to_datetime(@)]])
\* the plot summaries, or the empty frame when the file does not exist
read_summaries(file) ==
    IF file.exists THEN DataFrame(summaries_columns, file.rows)
    ELSE DataFrame(summaries_columns, <<>>)

\* _load_data: pd.read_csv raises FileNotFoundError for a missing file; the
\* attributes assigned before the failure stay assigned.
load_data ==
    /\ pc = "load"
    /\ IF ~cache[data_path].exists
       THEN /\ pc' = "failed"
            /\ error' = [exc |-> "FileNotFoundError", context |-> "none", stage |-> "load"]
            /\ UNCHANGED <<data, movie_metadata, summaries, snapshot>>
       ELSE IF ~cache[movie_metadata_path].exists
       THEN /\ pc' = "failed"
            /\ error' = [exc |-> "FileNotFoundError", context |-> "none", stage |-> "load"]
            /\ data' = read_characters(cache[data_path].rows)
            /\ UNCHANGED <<movie_metadata, summaries, snapshot>>
       ELSE /\ pc' = "ready"
            /\ error' = error
            /\ data' = read_characters(cache[data_path].rows)
            /\ movie_metadata' = read_movies(cache[movie_metadata_path].rows)
            /\ summaries' = read_summaries(cache[plot_summaries_path])
            /\ snapshot' = <<data', movie_metadata', summaries'>>
    /\ UNCHANGED <<remote, archive, cache, pending, tieRank, calls, warm, present,
                   written, inits, previous, last>>

\* MovieCorpusAnalyzer(): a new analyzer over the same download_dir, up to the
\* first step of __init__ (os.makedirs(download_dir, exist_ok=True)).
MovieCorpusAnalyzer ==
    /\ pc \in {"ready", "failed"}
    /\ inits < MaxInits
    /\ inits' = inits + 1
    /\ previous' = pc
    /\ pc' = "download"
    /\ pending' = "none"
    /\ error' = NoExc
    /\ data' = Unset
    /\ movie_metadata' = Unset
    /\ summaries' = Unset
    /\ calls' = NoCalls
    /\ warm' = exists(archive)
    /\ present' = {}
    /\ written' = {}
    /\ snapshot' = NoSnapshot
    /\ last' = NoCall
    /\ UNCHANGED <<remote, archive, cache, tieRank>>

\* ------------------------------------------------------------------ helpers
Min(a, b) == IF a <= b THEN a ELSE b
Max(a, b) == IF a >= b THEN a ELSE b

\* The elements of S in ascending order of key[x] (key is one-to-one on S).
RECURSIVE SortedBy(_, _)
SortedBy(S, key) ==
    IF S = {} THEN <<>>
    ELSE LET m == CHOOSE x \in S : \A y \in S : key[x] <= key[y]
         IN <<m>> \o SortedBy(S \ {m}, key)

Range(seq) == {seq[i] : i \in DOMAIN seq}
Frame(columns, rows) == [columns |-> columns, rows |-> rows]
Returned(op, args, value) == [op |-> op, args |-> args, outcome |-> "returned", value |-> value]
Raised(op, args, exc) == [op |-> op, args |-> args, outcome |-> exc, value |-> <<>>]

\* ---------------------------------------------------------------- movie_type
\* self.data.groupby("wikipedia_movie_id").size().reset_index(): one row per
\* movie id, ascending by id, with the number of its rows.
group_ids(df) == {df.rows[i].wikipedia_movie_id : i \in DOMAIN df.rows}
group_size(df, id) ==
    Cardinality({i \in DOMAIN df.rows : df.rows[i].wikipedia_movie_id = id})
groupby_size(df) ==
    LET order == SortedBy(group_ids(df), [id \in group_ids(df) |-> id])
    IN [i \in DOMAIN order |->
           [wikipedia_movie_id |-> order[i], Count |-> group_size(df, order[i])]]

\* a sort that is ascending by Count
sort_values_asc(counts, rank) ==
    LET width == Cardinality(DOMAIN rank) + 1
        key == [i \in DOMAIN counts |->
                   counts[i].Count * width + rank[counts[i].wikipedia_movie_id]]
        order == SortedBy(DOMAIN counts, key)
    IN [j \in DOMAIN order |-> counts[order[j]]]

\* movie_counts.sort_values("Count", ascending=False): descending by Count. The
\* sort is the default quicksort, which is not stable: rows of equal Count come
\* out in an order the sort algorithm fixes (rank), the same on every call.
sort_values_desc(counts, rank) ==
    LET width == Cardinality(DOMAIN rank) + 1
        key == [i \in DOMAIN counts |->
                   (0 - counts[i].Count) * width + rank[counts[i].wikipedia_movie_id]]
        order == SortedBy(DOMAIN counts, key)
    IN [j \in DOMAIN order |-> counts[order[j]]]

\* a head that is one row long
head_one_more(rows, n) == SubSeq(rows, 1, Min(n + 1, Len(rows)))

\* DataFrame.head(n): the first n rows; for a negative n all but the last -n.
head(rows, n) ==
    IF n >= 0 THEN SubSeq(rows, 1, Min(n, Len(rows)))
    ELSE SubSeq(rows, 1, Max(Len(rows) + n, 0))

\* a movie_type that takes any number for N
movie_type_any_number(df, rank, N) ==
    LET top_movies == head(sort_values_desc(groupby_size(df), rank), N.v)
    IN Returned("movie_type", <<N>>,
           Frame(<<"Movie_Type", "Count">>,
                 [i \in DOMAIN top_movies |->
                     [Movie_Type |-> ToString(top_movies[i].wikipedia_movie_id),
                      Count |-> top_movies[i].Count]]))

\* movie_type(N); N is [t |-> its Python type, v |-> its value].
movie_type(df, rank, N) ==
    IF N.t # "int" THEN Raised("movie_type", <<N>>, "TypeError")
    ELSE LET top_movies == head(sort_values_desc(groupby_size(df), rank), N.v)
         IN Returned("movie_type", <<N>>,
                Frame(<<"Movie_Type", "Count">>,
                      [i \in DOMAIN top_movies |->
                          [Movie_Type |-> ToString(top_movies[i].wikipedia_movie_id),
                           Count |-> top_movies[i].Count]]))

\* --------------------------------------------------------------- actor_count
\* a histogram that counts the rows, not the movies, of each size
actor_count_of_rows(df) ==
    LET per_movie == groupby_size(df)
        sizes == {per_movie[i].Count : i \in DOMAIN per_movie}
        order == SortedBy(sizes, [k \in sizes |-> k])
    IN Returned("actor_count", <<>>,
           Frame(<<"Number_of_Actors", "Movie_Count">>,
                 [j \in DOMAIN order |->
                     [Number_of_Actors |-> order[j],
                      Movie_Count |->
                          Cardinality({i \in DOMAIN df.rows :
                                          group_size(df, df.rows[i].wikipedia_movie_id)
                                              = order[j]})]]))

\* actor_count(): the sizes of the movie-id groups, grouped again by size.
actor_count(df) ==
    LET per_movie == groupby_size(df)
        sizes == {per_movie[i].Count : i \in DOMAIN per_movie}
        order == SortedBy(sizes, [k \in sizes |-> k])
    IN Returned("actor_count", <<>>,
           Frame(<<"Number_of_Actors", "Movie_Count">>,
                 [j \in DOMAIN order |->
                     [Number_of_Actors |-> order[j],
                      Movie_Count |->
                          Cardinality({i \in DOMAIN per_movie :
                                          per_movie[i].Count = order[j]})]]))

\* ------------------------------------------------------- actor_distributions
\* np.linspace(min_height, max_height, 20): edge i (0..19) is
\* min + i * (max - min) / 19; a height h is compared with it as
\* 19 * h against 19 * min + i * (max - min), which keeps to integers.
NumBins == NumEdges - 1
edge_times_bins(lo, hi, i) == NumBins * lo + i * (hi - lo)
\* labels: (bins[i] + bins[i+1]) / 2, held times 2 * NumBins
label(lo, hi, i) == edge_times_bins(lo, hi, i) + edge_times_bins(lo, hi, i + 1)

\* pd.cut(heights, bins=bins, labels=labels): right=True and
\* include_lowest=False, so bin i is (edge i, edge i+1]; a height in no bin
\* gets no label. The bin of h, or -1.
cut(h, lo, hi) ==
    LET fits == {i \in 0 .. NumBins - 1 :
                    /\ edge_times_bins(lo, hi, i) < NumBins * h
                    /\ NumBins * h <= edge_times_bins(lo, hi, i + 1)}
    IN IF fits = {} THEN 0 - 1 ELSE CHOOSE i \in fits : TRUE

\* an actor_distributions that takes any numeric range and counts no row
actor_distributions_any_range(df, gender, min_height, max_height) ==
    LET args == <<gender, min_height, max_height>> IN
    IF gender.t # "str" THEN Raised("actor_distributions", args, "TypeError")
    ELSE IF ~(min_height.t = "num" /\ max_height.t = "num")
    THEN Raised("actor_distributions", args, "TypeError")
    ELSE Returned("actor_distributions", args,
             Frame(<<"Height", "Count">>,
                   [j \in 1 .. NumBins |->
                       [Height |-> label(min_height.v, max_height.v, j - 1),
                        Count |-> 0]]))

\* an actor_distributions that looks at the range before the types
actor_distributions_range_first(df, gender, min_height, max_height) ==
    LET args == <<gender, min_height, max_height>> IN
    IF min_height.v < 0 THEN Raised("actor_distributions", args, "ValueError")
    ELSE IF max_height.v > MaxRealisticHeight * MetreTicks
    THEN Raised("actor_distributions", args, "ValueError")
    ELSE IF min_height.v > max_height.v
    THEN Raised("actor_distributions", args, "ValueError")
    ELSE IF gender.t # "str" THEN Raised("actor_distributions", args, "TypeError")
    ELSE IF ~(min_height.t = "num" /\ max_height.t = "num")
    THEN Raised("actor_distributions", args, "TypeError")
    ELSE Returned("actor_distributions", args,
             Frame(<<"Height", "Count">>,
                   [j \in 1 .. NumBins |->
                       [Height |-> label(min_height.v, max_height.v, j - 1),
                        Count |-> Cardinality({i \in DOMAIN df.rows :
                                     /\ notna(df.rows[i].actor_height)
                                     /\ cut(df.rows[i].actor_height.v,
                                            min_height.v, max_height.v) = j - 1})]]))

\* actor_distributions(gender, min_height, max_height); every argument is
\* [t |-> its Python type, v |-> its value], heights in ticks.
actor_distributions(df, gender, min_height, max_height) ==
    LET args == <<gender, min_height, max_height>> IN
    IF gender.t # "str" THEN Raised("actor_distributions", args, "TypeError")
    ELSE IF ~(min_height.t = "num" /\ max_height.t = "num")
    THEN Raised("actor_distributions", args, "TypeError")
    ELSE IF min_height.v < 0 THEN Raised("actor_distributions", args, "ValueError")
    ELSE IF max_height.v > MaxRealisticHeight * MetreTicks
    THEN Raised("actor_distributions", args, "ValueError")
    ELSE IF min_height.v > max_height.v
    THEN Raised("actor_distributions", args, "ValueError")
    ELSE LET lo == min_height.v
             hi == max_height.v
             with_height == SelectSeq(df.rows, LAMBDA r : notna(r.actor_height))
             of_gender ==
                 IF gender.v # "All"
                 THEN SelectSeq(with_height,
                                LAMBDA r : notna(r.actor_gender) /\ r.actor_gender.s = gender.v)
                 ELSE with_height
             filtered_data ==
                 SelectSeq(of_gender,
                           LAMBDA r : r.actor_height.v >= lo /\ r.actor_height.v <= hi)
         IN IF lo = hi
            THEN \* pd.cut: "Bin edges must be unique"
                 Raised("actor_distributions", args, "ValueError")
            ELSE \* groupby("height_bin").size() over the categorical: every
                 \* label, with the number of rows cut into it
                 Returned("actor_distributions", args,
                     Frame(<<"Height", "Count">>,
                           [j \in 1 .. NumBins |->
                               [Height |-> label(lo, hi, j - 1),
                                Count |->
                                    Cardinality({i \in DOMAIN filtered_data :
                                        cut(filtered_data[i].actor_height.v, lo, hi) = j - 1})]]))

\* ------------------------------------------------------------------ releases
\* an assignment that also drops, in place, the rows without a year
assign_year_dropna(df) ==
    [df EXCEPT
        !.columns = IF "year" \in Range(@) THEN @ ELSE Append(@, "year"),
        !.rows = LET kept == SelectSeq(@, LAMBDA r : notna(r.movie_release_date))
                 IN [i \in DOMAIN kept |->
                        [f \in Range(movie_metadata_columns) \cup {"year"} |->
                            IF f = "year" THEN Num(kept[i].movie_release_date.y)
                            ELSE kept[i][f]]]]

\* self.movie_metadata['year'] = pd.to_datetime(...).dt.year: the frame itself
\* gets (or has overwritten) the column year.
assign_year(df) ==
    [df EXCEPT
        !.columns = IF "year" \in Range(@) THEN @ ELSE Append(@, "year"),
        !.rows = [i \in DOMAIN @ |->
                     [f \in Range(movie_metadata_columns) \cup {"year"} |->
                         IF f = "year"
                         THEN (IF notna(@[i].movie_release_date)
                               THEN Num(@[i].movie_release_date.y) ELSE NaN)
                         ELSE @[i][f]]]]

\* str.lower() of one character
lower(c) ==
    CASE c = "D" -> "d" [] c = "N" -> "n" [] c = "A" -> "a" [] OTHER -> c
str_lower(text) == [i \in DOMAIN text |-> lower(text[i])]

\* Series.astype(str): a missing value becomes the text "nan".
astype_str(cell) == IF isna(cell) THEN <<"n", "a", "n">> ELSE cell.text

\* re.compile(pat) fails on an unbalanced parenthesis.
regex_error(pat) == \E j \in DOMAIN pat : pat[j] \in {"(", ")"}
\* re.search(pat, text) for a pattern of literal characters and ".": "." stands
\* for any one character.
re_search(pat, text) ==
    \E o \in 0 .. Len(text) - Len(pat) :
        \A j \in DOMAIN pat : pat[j] = "." \/ pat[j] = text[o + j]

\* a count that files the rows without a year under the year 0
year_counts_with_unknown(rows) ==
    LET years == {rows[i].year.v : i \in DOMAIN rows}
        order == SortedBy(years, [y \in years |-> y])
    IN [j \in DOMAIN order |->
           [Year |-> order[j],
            Count |-> Cardinality({i \in DOMAIN rows : rows[i].year.v = order[j]})]]

\* Series.value_counts() of the column year, then dropna().sort_values('Year')
\* and astype(int): one row per year that occurs, ascending.
year_counts(rows) ==
    LET years == {rows[i].year.v : i \in {i \in DOMAIN rows : notna(rows[i].year)}}
        order == SortedBy(years, [y \in years |-> y])
    IN [j \in DOMAIN order |->
           [Year |-> order[j],
            Count |-> Cardinality({i \in DOMAIN rows :
                                      notna(rows[i].year) /\ rows[i].year.v = order[j]})]]

\* releases(genre) on the frame that already holds the column year; genre is
\* [t |-> "none" or "str", v |-> the characters].
releases(df, genre) ==
    IF genre.t = "none"
    THEN Returned("releases", <<genre>>, Frame(<<"Year", "Count">>, year_counts(df.rows)))
    ELSE LET genre_lower == str_lower(genre.v) IN
         IF regex_error(genre_lower) THEN Raised("releases", <<genre>>, "re.error")
         ELSE LET genre_movies ==
                      SelectSeq(df.rows,
                                LAMBDA r : re_search(genre_lower,
                                                     str_lower(astype_str(r.genres))))
              IN Returned("releases", <<genre>>,
                          Frame(<<"Year", "Count">>, year_counts(genre_movies)))

\* ---------------------------------------------------------------------- ages
month_names ==
    <<"January", "February", "March", "April", "May", "June", "July", "August",
      "September", "October", "November", "December">>

\* a count that files the rows without a date of birth under the year 0
births_by_year_with_unknown(rows) ==
    LET years == {to_datetime(rows[i].actor_dob).y : i \in DOMAIN rows}
        order == SortedBy(years, [y \in years |-> y])
    IN [j \in DOMAIN order |->
           [Year |-> order[j],
            Births |-> Cardinality({i \in DOMAIN rows :
                                       to_datetime(rows[i].actor_dob).y = order[j]})]]

\* birth_dates.dt.year.value_counts() sorted by 'Year'
births_by_year(rows) ==
    LET born == {i \in DOMAIN rows : notna(to_datetime(rows[i].actor_dob))}
        years == {rows[i].actor_dob.y : i \in born}
        order == SortedBy(years, [y \in years |-> y])
    IN [j \in DOMAIN order |->
           [Year |-> order[j],
            Births |-> Cardinality({i \in born : rows[i].actor_dob.y = order[j]})]]

\* the months in the order value_counts() leaves them: most births first
births_by_month_unsorted(rows) ==
    LET born == {i \in DOMAIN rows : notna(to_datetime(rows[i].actor_dob))}
        months == {rows[i].actor_dob.m : i \in born}
        births == [m \in months |-> Cardinality({i \in born : rows[i].actor_dob.m = m})]
        order == SortedBy(months, [m \in months |-> (0 - births[m]) * 13 + m])
    IN [j \in DOMAIN order |->
           [Month |-> month_names[order[j]], Births |-> births[order[j]]]]

\* birth_dates.dt.month.value_counts() sorted by 'Month', then mapped to names
births_by_month(rows) ==
    LET born == {i \in DOMAIN rows : notna(to_datetime(rows[i].actor_dob))}
        months == {rows[i].actor_dob.m : i \in born}
        order == SortedBy(months, [m \in months |-> m])
    IN [j \in DOMAIN order |->
           [Month |-> month_names[order[j]],
            Births |-> Cardinality({i \in born : rows[i].actor_dob.m = order[j]})]]

\* an ages that refuses a unit it does not know
ages_strict(df, time_unit) ==
    IF time_unit = "M"
    THEN Returned("ages", <<time_unit>>, Frame(<<"Month", "Births">>, births_by_month(df.rows)))
    ELSE IF time_unit = "Y"
    THEN Returned("ages", <<time_unit>>, Frame(<<"Year", "Births">>, births_by_year(df.rows)))
    ELSE Raised("ages", <<time_unit>>, "ValueError")

\* ages(time_unit): any unit other than 'Y' and 'M' is answered as ages('Y').
ages(df, time_unit) ==
    IF time_unit = "M"
    THEN Returned("ages", <<time_unit>>, Frame(<<"Month", "Births">>, births_by_month(df.rows)))
    ELSE Returned("ages", <<time_unit>>, Frame(<<"Year", "Births">>, births_by_year(df.rows)))

\* --------------------------------------------------------- get_movie_details
\* eval(genres_raw) inside "try ... except Exception": the genre list, or the
\* exception that is not caught.
eval_genres(cell) ==
    LET genres_raw == IF notna(cell) THEN cell ELSE Genres(<<"{", "}">>, "dict", <<>>)
    IN CASE genres_raw.kind = "dict" -> [exc |-> "none", genres |-> genres_raw.values]
         [] genres_raw.kind = "exit" -> [exc |-> "SystemExit", genres |-> <<>>]
         [] OTHER -> [exc |-> "none", genres |-> <<>>]

\* a lookup that reads the summary table before the movie table
get_movie_details_summary_first(movies, plots, movie_id) ==
    LET movie_row == SelectSeq(movies.rows, LAMBDA r : r.wikipedia_movie_id = movie_id)
        summary_row == SelectSeq(plots.rows, LAMBDA r : r.wikipedia_movie_id = movie_id)
        summary == IF summary_row # <<>> THEN summary_row[1].summary
                   ELSE Str("Summary not available")
    IN IF movie_row = <<>>
       THEN Returned("get_movie_details", <<movie_id>>,
                     [title |-> Str("Unknown Title"), summary |-> summary, genres |-> <<>>])
       ELSE LET title == IF notna(movie_row[1].movie_name)
                         THEN movie_row[1].movie_name ELSE Str("Unknown Title")
                parsed == eval_genres(movie_row[1].genres)
            IN IF parsed.exc # "none"
               THEN Raised("get_movie_details", <<movie_id>>, parsed.exc)
               ELSE Returned("get_movie_details", <<movie_id>>,
                             [title |-> title, summary |-> summary,
                              genres |-> parsed.genres])

\* a lookup that takes the first summary of the table, whatever its movie id
get_movie_details_first_summary(movies, plots, movie_id) ==
    LET movie_row == SelectSeq(movies.rows, LAMBDA r : r.wikipedia_movie_id = movie_id)
    IN IF movie_row = <<>>
       THEN Returned("get_movie_details", <<movie_id>>,
                     [title |-> Str("Unknown Title"),
                      summary |-> Str("Summary not available"), genres |-> <<>>])
       ELSE LET title == IF notna(movie_row[1].movie_name)
                         THEN movie_row[1].movie_name ELSE Str("Unknown Title")
                summary == IF plots.rows # <<>> THEN plots.rows[1].summary
                           ELSE Str("Summary not available")
                parsed == eval_genres(movie_row[1].genres)
            IN IF parsed.exc # "none"
               THEN Raised("get_movie_details", <<movie_id>>, parsed.exc)
               ELSE Returned("get_movie_details", <<movie_id>>,
                             [title |-> title, summary |-> summary,
                              genres |-> parsed.genres])

get_movie_details(movies, plots, movie_id) ==
    LET movie_row == SelectSeq(movies.rows, LAMBDA r : r.wikipedia_movie_id = movie_id)
        summary_row == SelectSeq(plots.rows, LAMBDA r : r.wikipedia_movie_id = movie_id)
    IN IF movie_row = <<>>
       THEN Returned("get_movie_details", <<movie_id>>,
                     [title |-> Str("Unknown Title"),
                      summary |-> Str("Summary not available"), genres |-> <<>>])
       ELSE LET title == IF notna(movie_row[1].movie_name)
                         THEN movie_row[1].movie_name ELSE Str("Unknown Title")
                summary == IF summary_row # <<>> THEN summary_row[1].summary
                           ELSE Str("Summary not available")
                parsed == eval_genres(movie_row[1].genres)
            IN IF parsed.exc # "none"
               THEN Raised("get_movie_details", <<movie_id>>, parsed.exc)
               ELSE Returned("get_movie_details", <<movie_id>>,
                             [title |-> title, summary |-> summary,
                              genres |-> parsed.genres])

\* ------------------------------------------------------------- query calls
Int_(v) == [t |-> "int", v |-> v]
\* the values of N: integers, and "10" and 10.5
NArgs == {Int_(n) : n \in (0 - 1) .. MaxN} \cup {[t |-> "str", v |-> 10], [t |-> "float", v |-> 10]}
GenderArgs ==
    {[t |-> "str", v |-> "All"], [t |-> "str", v |-> "F"], [t |-> "str", v |-> "X"],
     [t |-> "int", v |-> "123"]}
Height_(h) == [t |-> "num", v |-> h]
\* <<min_height, max_height>> in ticks
HeightRangeArgs ==
    {<<Height_(0 - 1), Height_(MaxRealisticHeight * MetreTicks)>>,
     <<Height_(0), Height_(MaxRealisticHeight * MetreTicks)>>,
     <<Height_(0), Height_(MaxRealisticHeight * MetreTicks + 1)>>,
     <<Height_(4), Height_(3)>>,
     <<Height_(4), Height_(4)>>,
     <<Height_(3), Height_(MaxRealisticHeight * MetreTicks)>>,
     <<Height_(0), Height_(NumBins)>>,
     <<[t |-> "str", v |-> 3], Height_(MaxRealisticHeight * MetreTicks + 1)>>}
GenreArgs ==
    {[t |-> "none", v |-> <<>>]} \cup
    {[t |-> "str", v |-> g] : g \in {<<"D", "A">>, <<".", "a">>, <<".", ".", "a">>, <<"n", "a", "n">>, <<"(">>, <<"x">>}}
UnitArgs == {"Y", "M", "W", "m"}
IdArgs == 1 .. MaxId + 1

call_movie_type ==
    /\ pc = "ready"
    /\ \E N \in NArgs : last' = movie_type(data, tieRank, N)
    /\ UNCHANGED <<remote, archive, cache, pc, pending, error, data, movie_metadata,
                   summaries, tieRank, calls, warm, present, written, inits, previous,
                   snapshot>>

call_actor_count ==
    /\ pc = "ready"
    /\ last' = actor_count(data)
    /\ UNCHANGED <<remote, archive, cache, pc, pending, error, data, movie_metadata,
                   summaries, tieRank, calls, warm, present, written, inits, previous,
                   snapshot>>

call_actor_distributions ==
    /\ pc = "ready"
    /\ \E gender \in GenderArgs, range \in HeightRangeArgs :
         last' = actor_distributions(data, gender, range[1], range[2])
    /\ UNCHANGED <<remote, archive, cache, pc, pending, error, data, movie_metadata,
                   summaries, tieRank, calls, warm, present, written, inits, previous,
                   snapshot>>

\* releases(): the assignment of the column year to self.movie_metadata, then
\* the counting.
call_releases ==
    /\ pc = "ready"
    /\ movie_metadata' = assign_year(movie_metadata)
    /\ \E genre \in GenreArgs : last' = releases(movie_metadata', genre)
    /\ UNCHANGED <<remote, archive, cache, pc, pending, error, data,
                   summaries, tieRank, calls, warm, present, written, inits, previous,
                   snapshot>>

call_ages ==
    /\ pc = "ready"
    /\ \E time_unit \in UnitArgs : last' = ages(data, time_unit)
    /\ UNCHANGED <<remote, archive, cache, pc, pending, error, data, movie_metadata,
                   summaries, tieRank, calls, warm, present, written, inits, previous,
                   snapshot>>

call_get_movie_details ==
    /\ pc = "ready"
    /\ \E movie_id \in IdArgs : last' = get_movie_details(movie_metadata, summaries, movie_id)
    /\ UNCHANGED <<remote, archive, cache, pc, pending, error, data, movie_metadata,
                   summaries, tieRank, calls, warm, present, written, inits, previous,
                   snapshot>>

\* ------------------------------------------------------------ specifications
\* the movie ids of the corpus files
CorpusIds ==
    group_ids(ArchiveMember(data_path)) \cup group_ids(CachedFile(data_path))

\* The first analyzer is being constructed over a download_dir that holds any
\* of the archive and the three files. An archive that exists is never
\* replaced, so what data_url serves matters only when there is none.
Init ==
    /\ remote \in SUBSET needed_files
    /\ archive \in {NoArchive, CorruptArchive, Tar(remote)}
    /\ exists(archive) /\ archive.state = "corrupt" => remote = needed_files
    /\ cache \in {[f \in needed_files |-> IF f \in S THEN CachedFile(f) ELSE NoFile] :
                    S \in SUBSET needed_files}
    /\ tieRank = [id \in CorpusIds |-> id]
    /\ pc = "download"
    /\ pending = "none"
    /\ error = NoExc
    /\ data = Unset
    /\ movie_metadata = Unset
    /\ summaries = Unset
    /\ calls = NoCalls
    /\ warm = exists(archive)
    /\ present = {}
    /\ written = {}
    /\ inits = 1
    /\ previous = "none"
    /\ snapshot = NoSnapshot
    /\ last = NoCall

\* The construction of analyzers, one after the other, over one download_dir.
Next ==
    \/ download_data
    \/ download_with_wget
    \/ extract_data
    \/ load_data
    \/ MovieCorpusAnalyzer

Spec == Init /\ [][Next]_vars

\* The queries of one analyzer. It starts where _extract_data has returned:
\* each needed file is absent, or the cached edition (it was there before), or
\* the archive's member (just extracted); _load_data then runs, then queries.
InitQ ==
    /\ cache \in [needed_files -> {NoFile}] \cup
                 {c \in [needed_files ->
                           UNION {{NoFile, CachedFile(f), ArchiveMember(f)} : f \in needed_files}] :
                     \A f \in needed_files : c[f] \in {NoFile, CachedFile(f), ArchiveMember(f)}}
    /\ archive = Tar({f \in needed_files : cache[f] = ArchiveMember(f)})
    /\ remote = archive.members
    /\ tieRank \in Permutations(CorpusIds)
    /\ pc = "load"
    /\ pending = "none"
    /\ error = NoExc
    /\ data = Unset
    /\ movie_metadata = Unset
    /\ summaries = Unset
    /\ calls = NoCalls
    /\ warm = TRUE
    /\ present = {f \in needed_files : cache[f] = CachedFile(f)}
    /\ written = archive.members
    /\ inits = 1
    /\ previous = "none"
    /\ snapshot = NoSnapshot
    /\ last = NoCall

NextQ ==
    \/ load_data
    \/ call_movie_type
    \/ call_actor_count
    \/ call_actor_distributions
    \/ call_releases
    \/ call_ages
    \/ call_get_movie_details

SpecQ == InitQ /\ [][NextQ]_vars

\* movie_type alone, over every character table of up to MaxRows rows with
\* movie ids in 1..MaxId, and every order the sort may leave equal counts in.
IdTables == UNION {[1 .. n -> 1 .. MaxId] : n \in 0 .. MaxRows}
TableOf(idseq) ==
    [i \in DOMAIN idseq |-> CharRow(idseq[i], Date(1, 1), Str("M"), Num(3))]

InitMovieType ==
    /\ \E idseq \in IdTables :
         /\ cache = [f \in needed_files |->
                        IF f = data_path THEN File(TableOf(idseq)) ELSE ArchiveMember(f)]
         /\ data = read_characters(TableOf(idseq))
    /\ movie_metadata = read_movies(ArchiveMember(movie_metadata_path).rows)
    /\ summaries = read_summaries(ArchiveMember(plot_summaries_path))
    /\ archive = Tar({})
    /\ remote = {}
    /\ tieRank \in Permutations(1 .. MaxId)
    /\ pc = "ready"
    /\ pending = "none"
    /\ error = NoExc
    /\ calls = NoCalls
    /\ warm = TRUE
    /\ present = needed_files
    /\ written = {}
    /\ inits = 1
    /\ previous = "none"
    /\ snapshot = <<data, movie_metadata, summaries>>
    /\ last = NoCall

NextMovieType == call_movie_type

SpecMovieType == InitMovieType /\ [][NextMovieType]_vars

\* actor_count alone, over the same character tables.
NextActorCount == call_actor_count

SpecActorCount == InitMovieType /\ [][NextActorCount]_vars

\* ages alone, over every character table of up to MaxRows rows whose dates of
\* birth are drawn from DobCells: two years, three months, missing, unparsable.
DobCells == {Date(1, 1), Date(1, 4), Date(2, 4), Date(2, 12), NaT, BadDate}
DobTables == UNION {[1 .. n -> DobCells] : n \in 0 .. MaxRows}
DobTableOf(dobs) == [i \in DOMAIN dobs |-> CharRow(1, dobs[i], Str("M"), Num(3))]

InitAges ==
    /\ \E dobs \in DobTables :
         /\ cache = [f \in needed_files |->
                        IF f = data_path THEN File(DobTableOf(dobs)) ELSE ArchiveMember(f)]
         /\ data = read_characters(DobTableOf(dobs))
    /\ movie_metadata = read_movies(ArchiveMember(movie_metadata_path).rows)
    /\ summaries = read_summaries(ArchiveMember(plot_summaries_path))
    /\ archive = Tar({})
    /\ remote = {}
    /\ tieRank = [id \in 1 .. MaxId |-> id]
    /\ pc = "ready"
    /\ pending = "none"
    /\ error = NoExc
    /\ calls = NoCalls
    /\ warm = TRUE
    /\ present = needed_files
    /\ written = {}
    /\ inits = 1
    /\ previous = "none"
    /\ snapshot = <<data, movie_metadata, summaries>>
    /\ last = NoCall

NextAges == call_ages

SpecAges == InitAges /\ [][NextAges]_vars

\* get_movie_details alone, over every movie table of up to MaxMovies rows
\* (ids in 1..MaxId, every kind of genres cell, the title of movie 1 missing)
\* and the summary tables that hold the ids 1..k.
GenreCells == {GenreDrama, GenreNoir, GenreList, GenreBroken, GenreExit, NaGenres}
DetailRows ==
    {MovieRow(id, IF id = 1 THEN NaStr ELSE Str(ToString(id)), Date(1, 1), g) :
        id \in 1 .. MaxId, g \in GenreCells}
MovieTables == UNION {[1 .. n -> DetailRows] : n \in 0 .. MaxMovies}
SummaryTables == {[i \in 1 .. k |-> SummaryRow(i, Str(ToString(i)))] : k \in 0 .. MaxId}

InitDetails ==
    /\ \E movies \in MovieTables, plots \in SummaryTables :
         /\ cache = [f \in needed_files |->
                        CASE f = movie_metadata_path -> File(movies)
                          [] f = plot_summaries_path -> File(plots)
                          [] OTHER -> ArchiveMember(f)]
         /\ movie_metadata = read_movies(movies)
         /\ summaries = read_summaries(File(plots))
    /\ data = read_characters(ArchiveMember(data_path).rows)
    /\ archive = Tar({})
    /\ remote = {}
    /\ tieRank = [id \in 1 .. MaxId |-> id]
    /\ pc = "ready"
    /\ pending = "none"
    /\ error = NoExc
    /\ calls = NoCalls
    /\ warm = TRUE
    /\ present = needed_files
    /\ written = {}
    /\ inits = 1
    /\ previous = "none"
    /\ snapshot = <<data, movie_metadata, summaries>>
    /\ last = NoCall

NextDetails == call_get_movie_details

SpecDetails == InitDetails /\ [][NextDetails]_vars

\* ==================================================================== claims

\* C1: after any sequence of query calls the character, movie and summary
\* tables are the snapshot that loading produced: same columns, rows, values.
C1_QueriesLeaveTheTables ==
    pc = "ready" => <<data, movie_metadata, summaries>> = snapshot

\* C2: when a file exists at archive_path as a construction starts, neither
\* urlretrieve nor wget is called in it; a construction that follows a
\* successful one starts with the archive in place.
C2_WarmArchiveIsNotDownloaded ==
    /\ warm => calls = NoCalls
    /\ previous = "ready" => warm
C2_Witness ==
    /\ inits = 2
    /\ previous = "ready"
    /\ pc = "ready"
    /\ calls = NoCalls

\* C3: a needed file that is in download_dir when _extract_data starts is not
\* extracted again, whatever subset of the three files is there.
C3_PresentFilesAreNotExtracted == written \cap present = {}

\* C4: _extract_data does not return normally while a needed file is still
\* missing from download_dir.
C4_NoReturnWithAMemberMissing ==
    pc = "load" => \A f \in needed_files : cache[f].exists

\* C5: the fallback transport is tried at most once in a construction, and
\* only right after urlretrieve failed; when it succeeds the construction goes
\* on to extraction; when it fails too, in either way, the construction fails
\* with an error that carries the failure of urlretrieve (as the exception
\* itself or as its __context__).
WgetCalls == {i \in DOMAIN calls : calls[i].transport = "wget"}
Acquired == exists(archive) /\ (calls = <<>> \/ calls[Len(calls)].ok)
NoTableLoaded == data = Unset /\ movie_metadata = Unset /\ summaries = Unset
C6_OrderedAllOrNothing ==
    /\ pc \in {"extract", "load", "ready"} => Acquired
    /\ pc = "failed" /\ error.stage \in {"extract", "load"} => Acquired
    /\ pc \in {"load", "ready"} => error = NoExc
    /\ pc = "failed" => error # NoExc
    /\ pc = "failed" /\ error.stage \in {"download", "extract"} => NoTableLoaded
    /\ pc \in {"download", "wget", "extract", "load"} => NoTableLoaded
    /\ pc = "ready" => data.loaded /\ movie_metadata.loaded /\ summaries.loaded
C6_Witness ==
    /\ pc = "failed"
    /\ error.stage = "extract"
    /\ NoTableLoaded
    /\ files_to_extract(cache) # {}

\* C7: with no plot_summaries.txt in download_dir at load time, loading gives
\* the empty summary table with the columns (wikipedia_movie_id, summary), and
\* every get_movie_details call for a movie of the movie table returns the
\* summary "Summary not available".
C7_NoSummariesFile ==
    pc = "ready" /\ ~cache[plot_summaries_path].exists =>
        /\ summaries = DataFrame(summaries_columns, <<>>)
        /\ (last.op = "get_movie_details" /\ last.args[1] \in group_ids(movie_metadata)) =>
               /\ last.outcome = "returned"
               /\ last.value.summary = Str("Summary not available")

\* C8: what a query call returns is what the same call returns on the tables
\* as loaded, whichever calls came before it (the order of tied groups in
\* movie_type included).
Replay(call, tables) ==
    CASE call.op = "movie_type" -> movie_type(tables[1], tieRank, call.args[1])
      [] call.op = "actor_count" -> actor_count(tables[1])
      [] call.op = "actor_distributions" ->
             actor_distributions(tables[1], call.args[1], call.args[2], call.args[3])
      [] call.op = "releases" -> releases(assign_year(tables[2]), call.args[1])
      [] call.op = "ages" -> ages(tables[1], call.args[1])
      [] OTHER -> get_movie_details(tables[2], tables[3], call.args[1])
C8_ResultsDoNotDependOnEarlierCalls ==
    last.op # "none" => last = Replay(last, snapshot)
C8_Witness ==
    /\ "year" \in Range(movie_metadata.columns)
    /\ last.op = "movie_type"
    /\ last.outcome = "returned"
    /\ \E i, j \in DOMAIN last.value.rows :
         i # j /\ last.value.rows[i].Count = last.value.rows[j].Count

\* C9: for a positive integer N, movie_type(N) returns min(N, G) rows, G the
\* number of distinct movie ids; each row is a movie id, no id twice, with the
\* number of its rows; the counts do not increase down the result; no group
\* left out has a larger count than a group returned.
MovieTypeCalled ==
    /\ last.op = "movie_type"
    /\ last.args[1].t = "int"
    /\ last.args[1].v > 0
IdOf(text) == CHOOSE id \in 1 .. MaxId : ToString(id) = text
Returned_ids == {IdOf(last.value.rows[i].Movie_Type) : i \in DOMAIN last.value.rows}
C9_TopGroups ==
    MovieTypeCalled =>
        LET rows == last.value.rows IN
        /\ last.outcome = "returned"
        /\ Len(rows) = Min(last.args[1].v, Cardinality(group_ids(data)))
        /\ \A i \in DOMAIN rows :
             /\ \E id \in group_ids(data) : ToString(id) = rows[i].Movie_Type
             /\ rows[i].Count = group_size(data, IdOf(rows[i].Movie_Type))
        /\ \A i, j \in DOMAIN rows :
             /\ i # j => rows[i].Movie_Type # rows[j].Movie_Type
             /\ i < j => rows[i].Count >= rows[j].Count
        /\ \A id \in group_ids(data) \ Returned_ids, i \in DOMAIN rows :
             group_size(data, id) <= rows[i].Count
C9_Witness ==
    /\ MovieTypeCalled
    /\ last.args[1].v = 2
    /\ Cardinality(group_ids(data)) = 3
    /\ Len(last.value.rows) = 2
    /\ last.value.rows[1].Count > last.value.rows[2].Count

\* C10 as claimed: groups of equal count come out ascending by movie id, and of
\* a tie that straddles the cut-off at N the smaller ids are the ones returned.
C10_TiesAscendingById ==
    MovieTypeCalled /\ last.outcome = "returned" =>
        LET rows == last.value.rows IN
        /\ \A i, j \in DOMAIN rows :
             i < j /\ rows[i].Count = rows[j].Count =>
                 IdOf(rows[i].Movie_Type) < IdOf(rows[j].Movie_Type)
        /\ \A id \in group_ids(data) \ Returned_ids, i \in DOMAIN rows :
             group_size(data, id) = rows[i].Count => IdOf(rows[i].Movie_Type) < id

\* C10 as amended: of the groups that share a count c the result holds as many
\* as fit into N rows after the groups of a larger count, whichever ids they
\* have.
GroupsWith(c) == {id \in group_ids(data) : group_size(data, id) = c}
GroupsAbove(c) == {id \in group_ids(data) : group_size(data, id) > c}
C10_TiedGroupsFillTheCut ==
    MovieTypeCalled /\ last.outcome = "returned" =>
        \A c \in {group_size(data, id) : id \in group_ids(data)} :
            Cardinality({i \in DOMAIN last.value.rows : last.value.rows[i].Count = c})
                = Max(0, Min(Cardinality(GroupsWith(c)),
                             last.args[1].v - Cardinality(GroupsAbove(c))))
C10_Witness ==
    /\ MovieTypeCalled
    /\ last.outcome = "returned"
    /\ \E id \in group_ids(data) \ Returned_ids, i \in DOMAIN last.value.rows :
         /\ group_size(data, id) = last.value.rows[i].Count
         /\ id < IdOf(last.value.rows[i].Movie_Type)

\* C11: movie_type(N) with an integer N <= 0 fails with an invalid-argument
\* error; it never returns a result for a non-positive N.
C11_NonPositiveNIsRefused ==
    (/\ last.op = "movie_type"
     /\ last.args[1].t = "int"
     /\ last.args[1].v <= 0) => last.outcome # "returned"

\* C12: movie_type(N) with an N that is not an integer (a string, a float)
\* raises TypeError and returns no result, whatever the character table holds.
C12_NonIntegerNIsATypeError ==
    (last.op = "movie_type" /\ last.args[1].t # "int") =>
        /\ last.outcome = "TypeError"
        /\ last.value = <<>>
C12_Witness ==
    /\ last.op = "movie_type"
    /\ last.args[1].t = "float"
    /\ last.outcome = "TypeError"
    /\ Cardinality(group_ids(data)) >= 2

\* C13: actor_count returns exactly one row (k, number of movie ids with
\* exactly k rows) for every k that is the size of some movie-id group and no
\* row for any other k, in strictly ascending k; the Movie_Count values sum to
\* the number of distinct movie ids and k * Movie_Count to the number of rows.
RowsOf(id) == {i \in DOMAIN data.rows : data.rows[i].wikipedia_movie_id = id}
MovieIds == {data.rows[i].wikipedia_movie_id : i \in DOMAIN data.rows}
MoviesOfSize(k) == {id \in MovieIds : Cardinality(RowsOf(id)) = k}
RECURSIVE SumSeq(_)
SumSeq(seq) == IF seq = <<>> THEN 0 ELSE Head(seq) + SumSeq(Tail(seq))
C13_HistogramOfGroupSizes ==
    last.op = "actor_count" =>
        LET rows == last.value.rows IN
        /\ last.outcome = "returned"
        /\ \A i, j \in DOMAIN rows :
             i < j => rows[i].Number_of_Actors < rows[j].Number_of_Actors
        /\ \A i \in DOMAIN rows :
             /\ MoviesOfSize(rows[i].Number_of_Actors) # {}
             /\ rows[i].Movie_Count = Cardinality(MoviesOfSize(rows[i].Number_of_Actors))
        /\ \A k \in 1 .. Len(data.rows) :
             MoviesOfSize(k) # {} => \E i \in DOMAIN rows : rows[i].Number_of_Actors = k
        /\ SumSeq([i \in DOMAIN rows |-> rows[i].Movie_Count]) = Cardinality(MovieIds)
        /\ SumSeq([i \in DOMAIN rows |-> rows[i].Number_of_Actors * rows[i].Movie_Count])
             = Len(data.rows)
C13_Witness ==
    /\ last.op = "actor_count"
    /\ last.outcome = "returned"
    /\ Len(last.value.rows) = 2
    /\ last.value.rows[1].Movie_Count = 2
    /\ last.value.rows[2].Number_of_Actors = 2

\* C14: actor_distributions with a string gender and numeric bounds raises
\* ValueError and returns no result whenever min_height < 0, or max_height > 3
\* metres, or min_height > max_height.
HeightsCalled ==
    /\ last.op = "actor_distributions"
    /\ last.args[1].t = "str"
    /\ last.args[2].t = "num"
    /\ last.args[3].t = "num"
C14_UnrealisticRangeIsAValueError ==
    (/\ HeightsCalled
     /\ \/ last.args[2].v < 0
        \/ last.args[3].v > MaxRealisticHeight * MetreTicks
        \/ last.args[2].v > last.args[3].v) =>
        /\ last.outcome = "ValueError"
        /\ last.value = <<>>
C14_Witness ==
    /\ HeightsCalled
    /\ last.args[2].v >= 0
    /\ last.args[3].v <= MaxRealisticHeight * MetreTicks
    /\ last.args[2].v > last.args[3].v
    /\ last.outcome = "ValueError"
    /\ Len(data.rows) > 0

\* C15: for a valid range the counts returned by actor_distributions add up to
\* the number of rows with a non-null height, the gender of the filter (when
\* one is given) and min_height <= height <= max_height, both ends inclusive.
InRange(r) ==
    /\ notna(r.actor_height)
    /\ last.args[1].v # "All" => (notna(r.actor_gender) /\ r.actor_gender.s = last.args[1].v)
    /\ last.args[2].v <= r.actor_height.v
    /\ r.actor_height.v <= last.args[3].v
C15_CountsEveryRowInRange ==
    (/\ HeightsCalled
     /\ 0 <= last.args[2].v
     /\ last.args[2].v <= last.args[3].v
     /\ last.args[3].v <= MaxRealisticHeight * MetreTicks) =>
        /\ last.outcome = "returned"
        /\ SumSeq([i \in DOMAIN last.value.rows |-> last.value.rows[i].Count])
             = Cardinality({i \in DOMAIN data.rows : InRange(data.rows[i])})

\* C16: releases() returns one row per year in which some row of the movie
\* table (of those the genre filter keeps, when one is given) was released,
\* with the number of those rows, in strictly ascending year order; a row whose
\* release date is null or unparsable is counted in no year.
MovieFile == cache[movie_metadata_path].rows
ReleasesReturned == last.op = "releases" /\ last.outcome = "returned"
Kept(i) ==
    \/ last.args[1].t = "none"
    \/ re_search(str_lower(last.args[1].v), str_lower(astype_str(MovieFile[i].genres)))
ReleasedIn(y) ==
    {i \in DOMAIN MovieFile :
        /\ Kept(i)
        /\ MovieFile[i].movie_release_date.k = "ok"
        /\ MovieFile[i].movie_release_date.y = y}
C16_CountsPerReleaseYear ==
    ReleasesReturned =>
        LET rows == last.value.rows IN
        /\ last.value.columns = <<"Year", "Count">>
        /\ \A i, j \in DOMAIN rows : i < j => rows[i].Year < rows[j].Year
        /\ \A i \in DOMAIN rows :
             /\ rows[i].Count > 0
             /\ rows[i].Count = Cardinality(ReleasedIn(rows[i].Year))
        /\ \A i \in DOMAIN MovieFile :
             Kept(i) /\ MovieFile[i].movie_release_date.k = "ok" =>
                 \E j \in DOMAIN rows : rows[j].Year = MovieFile[i].movie_release_date.y
C16_Witness ==
    /\ ReleasesReturned
    /\ last.args[1].t = "none"
    /\ \E i \in DOMAIN MovieFile : MovieFile[i].movie_release_date.k = "bad"
    /\ Len(last.value.rows) = 2

\* C17: releases(genre) returns the empty result with the columns (Year,
\* Count), and raises nothing, when the filter term occurs in no row's genre
\* text and when every row it occurs in has an unknown release year.
Occurs(term, text) ==
    \E o \in 0 .. Len(text) - Len(term) : \A j \in DOMAIN term : term[j] = text[o + j]
Matching ==
    {i \in DOMAIN MovieFile :
        Occurs(str_lower(last.args[1].v), str_lower(astype_str(MovieFile[i].genres)))}
C17_NothingLeftIsAnEmptyResult ==
    (/\ last.op = "releases"
     /\ last.args[1].t = "str"
     /\ \A i \in Matching : MovieFile[i].movie_release_date.k # "ok") =>
        /\ last.outcome = "returned"
        /\ last.value = Frame(<<"Year", "Count">>, <<>>)

\* C18: with a genre filter given, releases() counts exactly the rows in whose
\* lower-cased genre text the lower-cased filter term occurs as a literal
\* contiguous substring, for every filter string, the characters special in
\* regular expressions included.
C18_FilterIsALiteralSubstring ==
    (last.op = "releases" /\ last.args[1].t = "str") =>
        /\ last.outcome = "returned"
        /\ {<<last.value.rows[j].Year, last.value.rows[j].Count>> :
               j \in DOMAIN last.value.rows}
             = {<<MovieFile[i].movie_release_date.y,
                  Cardinality({k \in Matching :
                      /\ MovieFile[k].movie_release_date.k = "ok"
                      /\ MovieFile[k].movie_release_date.y
                           = MovieFile[i].movie_release_date.y})>> :
                   i \in {k \in Matching : MovieFile[k].movie_release_date.k = "ok"}}

\* C19: ages('M') returns one row per calendar month 1..12 with at least one
\* birth, with the number of rows born in that month whatever the year, in
\* ascending order of the month's number (not of its name), labelled with the
\* full English name of the month.
EnglishMonth ==
    [m \in 1 .. 12 |->
        CASE m = 1 -> "January" [] m = 2 -> "February" [] m = 3 -> "March"
          [] m = 4 -> "April" [] m = 5 -> "May" [] m = 6 -> "June"
          [] m = 7 -> "July" [] m = 8 -> "August" [] m = 9 -> "September"
          [] m = 10 -> "October" [] m = 11 -> "November" [] OTHER -> "December"]
CharacterFile == cache[data_path].rows
BornInMonth(m) ==
    {i \in DOMAIN CharacterFile :
        CharacterFile[i].actor_dob.k = "ok" /\ CharacterFile[i].actor_dob.m = m}
BornInYear(y) ==
    {i \in DOMAIN CharacterFile :
        CharacterFile[i].actor_dob.k = "ok" /\ CharacterFile[i].actor_dob.y = y}
C19_BirthsPerMonth ==
    (last.op = "ages" /\ last.args[1] = "M") =>
        LET rows == last.value.rows IN
        /\ last.outcome = "returned"
        /\ last.value.columns = <<"Month", "Births">>
        /\ \A i \in DOMAIN rows :
             \E m \in 1 .. 12 :
                 /\ rows[i].Month = EnglishMonth[m]
                 /\ rows[i].Births = Cardinality(BornInMonth(m))
                 /\ rows[i].Births > 0
                 /\ \A j \in DOMAIN rows, n \in 1 .. 12 :
                      i < j /\ rows[j].Month = EnglishMonth[n] => m < n
        /\ \A m \in 1 .. 12 :
             BornInMonth(m) # {} => \E i \in DOMAIN rows : rows[i].Month = EnglishMonth[m]
C19_Witness ==
    /\ last.op = "ages"
    /\ last.args[1] = "M"
    /\ last.outcome = "returned"
    /\ Len(last.value.rows) = 2
    /\ last.value.rows[1] = [Month |-> "January", Births |-> 1]
    /\ last.value.rows[2] = [Month |-> "April", Births |-> 2]
    /\ BornInYear(1) # {}
    /\ BornInYear(2) # {}

\* C20: ages('Y') returns the number of rows per birth year in ascending year
\* order; with a unit that is neither 'Y' nor 'M' the call ends without error
\* and returns exactly what ages('Y') returns.
C20_BirthsPerYearByDefault ==
    (last.op = "ages" /\ last.args[1] # "M") =>
        LET rows == last.value.rows IN
        /\ last.outcome = "returned"
        /\ last.value.columns = <<"Year", "Births">>
        /\ \A i, j \in DOMAIN rows : i < j => rows[i].Year < rows[j].Year
        /\ \A i \in DOMAIN rows :
             rows[i].Births > 0 /\ rows[i].Births = Cardinality(BornInYear(rows[i].Year))
        /\ \A i \in DOMAIN CharacterFile :
             CharacterFile[i].actor_dob.k = "ok" =>
                 \E j \in DOMAIN rows : rows[j].Year = CharacterFile[i].actor_dob.y
        /\ last.value = ages(data, "Y").value
C20_Witness ==
    /\ last.op = "ages"
    /\ last.args[1] \notin {"Y", "M"}
    /\ last.outcome = "returned"
    /\ Len(last.value.rows) = 2
    /\ last.value.rows[1].Births = 2
    /\ \E i \in DOMAIN CharacterFile : CharacterFile[i].actor_dob.k = "bad"

\* C21: for a movie id that matches no row of the movie table,
\* get_movie_details returns the placeholder record (title "Unknown Title",
\* summary "Summary not available", no genres) and raises nothing, whether or
\* not the summary table holds that id.
DetailsCalled == last.op = "get_movie_details"
MovieRowsOf(id) == {i \in DOMAIN movie_metadata.rows : movie_metadata.rows[i].wikipedia_movie_id = id}
SummaryRowsOf(id) == {i \in DOMAIN summaries.rows : summaries.rows[i].wikipedia_movie_id = id}
C21_UnknownIdIsThePlaceholder ==
    (DetailsCalled /\ MovieRowsOf(last.args[1]) = {}) =>
        /\ last.outcome = "returned"
        /\ last.value = [title |-> Str("Unknown Title"),
                         summary |-> Str("Summary not available"),
                         genres |-> <<>>]
C21_Witness ==
    /\ DetailsCalled
    /\ MovieRowsOf(last.args[1]) = {}
    /\ SummaryRowsOf(last.args[1]) # {}
    /\ movie_metadata.rows # <<>>
    /\ last.outcome = "returned"

\* C22: for a movie id in the movie table whose genres text is a well-formed
\* mapping, get_movie_details returns the movie's own title and the values of
\* the mapping, with the summary "Summary not available" when the summary
\* table does not hold the id; for an id in both tables the summary returned
\* is the one stored for that id.
FirstMovieRow == movie_metadata.rows[CHOOSE i \in MovieRowsOf(last.args[1]) :
                                         \A j \in MovieRowsOf(last.args[1]) : i <= j]
C22_SummaryOfTheSameMovie ==
    (DetailsCalled /\ MovieRowsOf(last.args[1]) # {}) =>
        /\ FirstMovieRow.genres.kind = "dict" =>
             /\ last.outcome = "returned"
             /\ notna(FirstMovieRow.movie_name) => last.value.title = FirstMovieRow.movie_name
             /\ last.value.genres = FirstMovieRow.genres.values
             /\ SummaryRowsOf(last.args[1]) = {} =>
                  last.value.summary = Str("Summary not available")
        /\ (last.outcome = "returned" /\ SummaryRowsOf(last.args[1]) # {}) =>
             \E i \in SummaryRowsOf(last.args[1]) :
                 last.value.summary = summaries.rows[i].summary
C22_Witness ==
    /\ DetailsCalled
    /\ last.args[1] = 2
    /\ MovieRowsOf(2) # {}
    /\ FirstMovieRow.genres = GenreNoir
    /\ SummaryRowsOf(2) = {}
    /\ SummaryRowsOf(1) # {}
    /\ last.outcome = "returned"

\* C23: whatever the genres text of the movie row (a well-formed mapping,
\* malformed text, text that evaluates to a value that is no mapping, text
\* whose evaluation raises or asks for the process to exit, or null),
\* get_movie_details returns a record and lets no failure through, and the
\* genre list is empty whenever the text is no well-formed mapping.
C23_NoGenresTextMakesItFail ==
    (DetailsCalled /\ MovieRowsOf(last.args[1]) # {}) =>
        /\ last.outcome = "returned"
        /\ FirstMovieRow.genres.kind # "dict" => last.value.genres = <<>>

\* C24: a row whose date or number is null after loading is left out of every
\* aggregate over that field: the counts of ages() add up to the number of
\* rows with a date of birth, the counts of releases() without a filter to the
\* number of movie rows with a release date, and the counts of
\* actor_distributions to no more than the rows with a height in the range.
C24_NullsAreInNoCount ==
    /\ last.op = "ages" =>
         /\ last.outcome = "returned"
         /\ SumSeq([i \in DOMAIN last.value.rows |-> last.value.rows[i].Births])
              = Cardinality({i \in DOMAIN data.rows : notna(data.rows[i].actor_dob)})
    /\ (last.op = "releases" /\ last.args[1].t = "none") =>
         /\ last.outcome = "returned"
         /\ SumSeq([i \in DOMAIN last.value.rows |-> last.value.rows[i].Count])
              = Cardinality({i \in DOMAIN movie_metadata.rows :
                                notna(movie_metadata.rows[i].movie_release_date)})
    /\ (last.op = "actor_distributions" /\ last.outcome = "returned") =>
         SumSeq([i \in DOMAIN last.value.rows |-> last.value.rows[i].Count])
             <= Cardinality({i \in DOMAIN data.rows : InRange(data.rows[i])})
C24_Witness ==
    /\ last.op = "ages"
    /\ last.outcome = "returned"
    /\ \E i \in DOMAIN data.rows : isna(data.rows[i].actor_dob)
    /\ \E i \in DOMAIN data.rows : isna(data.rows[i].actor_height)
    /\ \E i \in DOMAIN movie_metadata.rows : isna(movie_metadata.rows[i].movie_release_date)
    /\ SumSeq([i \in DOMAIN last.value.rows |-> last.value.rows[i].Births]) = 3

\* C25: a call of actor_distributions with a gender that is no string or a
\* bound that is no number raises TypeError, also when a bound is out of range
\* as well; and a call that is rejected leaves the three loaded tables as they
\* were before it.
C25_TypesBeforeRangesBeforeData ==
    [][last'.op = "actor_distributions" =>
          /\ (\/ last'.args[1].t # "str"
              \/ last'.args[2].t # "num"
              \/ last'.args[3].t # "num") => last'.outcome = "TypeError"
          /\ last'.outcome # "returned" =>
               UNCHANGED <<data, movie_metadata, summaries>>]_vars
C25_Witness ==
    /\ last.op = "actor_distributions"
    /\ last.args[1].t # "str"
    /\ last.args[2].v < 0
    /\ last.outcome = "TypeError"
    /\ data.rows # <<>>

\* C26: actor_distributions cuts [min_height, max_height] into 19 bins of
\* equal width, closed on the left and open on the right, the last one closed
\* on the right as well: a height on an interior edge is counted in the bin
\* that starts there; each bin is labelled with the midpoint of its edges.
\* (Edge(j) is 19 times edge j; Height is held as 2 * 19 times the midpoint.)
Edge(j) == (NumEdges - 1) * last.args[2].v + j * (last.args[3].v - last.args[2].v)
InBin(h, j) ==
    /\ Edge(j - 1) <= (NumEdges - 1) * h
    /\ \/ (NumEdges - 1) * h < Edge(j)
       \/ j = NumEdges - 1 /\ (NumEdges - 1) * h = Edge(j)
C26_BinsClosedOnTheLeft ==
    (HeightsCalled /\ last.outcome = "returned") =>
        /\ Len(last.value.rows) = NumEdges - 1
        /\ \A j \in DOMAIN last.value.rows :
             /\ last.value.rows[j].Height = Edge(j - 1) + Edge(j)
             /\ last.value.rows[j].Count =
                  Cardinality({i \in DOMAIN data.rows :
                      InRange(data.rows[i]) /\ InBin(data.rows[i].actor_height.v, j)})

\* C27: with a string gender and numeric bounds 0 <= min_height <= max_height
\* <= 3 metres, actor_distributions returns a result with the columns (Height,
\* Count) and does not fail, also when no row has the gender and when
\* min_height = max_height.
C27_ValidArgumentsReturn ==
    (/\ HeightsCalled
     /\ 0 <= last.args[2].v
     /\ last.args[2].v <= last.args[3].v
     /\ last.args[3].v <= MaxRealisticHeight * MetreTicks) =>
        /\ last.outcome = "returned"
        /\ last.value.columns = <<"Height", "Count">>

\* C28: a construction that ends with both transports having failed leaves no
\* file at archive_path, so that the next construction over the same
\* download_dir downloads again instead of skipping the download on the
\* presence check and failing in the extraction.
C28_FailedDownloadLeavesNoArchive ==
    (pc = "failed" /\ error.stage = "download") => ~exists(archive)

\* C29: with a genre filter given, releases() counts no movie row whose genres
\* field is null, whatever the filter string ("nan", "na" and "n" included):
\* the result is the count per year of the rows kept that have a genres text.
KeptWithGenres == {i \in DOMAIN MovieFile : Kept(i) /\ MovieFile[i].genres.k # "na"}
C29_NullGenresAreNeverMatched ==
    (ReleasesReturned /\ last.args[1].t = "str") =>
        {<<last.value.rows[j].Year, last.value.rows[j].Count>> :
            j \in DOMAIN last.value.rows}
          = {<<MovieFile[i].movie_release_date.y,
               Cardinality({k \in KeptWithGenres :
                   /\ MovieFile[k].movie_release_date.k = "ok"
                   /\ MovieFile[k].movie_release_date.y
                        = MovieFile[i].movie_release_date.y})>> :
                i \in {k \in KeptWithGenres : MovieFile[k].movie_release_date.k = "ok"}}

====
